---- MODULE Spec2Model ----
(***************************************************************************)
(* Piano / non-piano baseline classifier: the training script              *)
(* (ml/scripts/train_baseline.py) and the single-file prediction script    *)
(* (ml/scripts/predict_file.py), as one state machine over the files they  *)
(* share: the model artifact and the report.  The configuration document   *)
(* each script reads is the one its --config argument names.               *)
(*                                                                         *)
(* Abstractions.  A feature value is represented by the name of the        *)
(* statistic it holds (a zero by 0), so a vector keeps its length and its  *)
(* order.  Probabilities are tenths (5 is 0.5).  Split fractions are       *)
(* percentages and the sizes are computed in exact arithmetic (for the     *)
(* configurations below the float results of the code are the same).  The  *)
(* random permutation of the stratified split is a nondeterministic choice *)
(* of the members of each side.  A fit is some deterministic function of   *)
(* the training subset onto one of NumRules classifiers, and a classifier  *)
(* is some deterministic function of its input onto a probability.         *)
(***************************************************************************)
EXTENDS Integers, Sequences, FiniteSets

\* ------------------------------------------------------------ bounds
\* rows of the manifest read by one training run
MaxRows == 7
\* rows of one manifest that are not a decodable clip with a 0/1 label
MaxFaults == 1
\* distinct classifiers a fit can produce
NumRules == 3

\* ------------------------------------------------------------ inputs
\* the configuration documents a --config argument can name: ext stands for
\* the extraction parameters (sample_rate, max_duration_seconds, n_fft,
\* hop_length, n_mels), the splits are percentages.
Configs ==
    { [ext |-> 1, train_split |-> 40, val_split |-> 30, test_split |-> 30],
      [ext |-> 2, train_split |-> 50, val_split |-> 25, test_split |-> 25] }

\* what librosa.load does with a file: raises, returns no samples, returns samples
Audios == {"corrupt", "empty", "ok"}
\* a manifest label cell: 0, 1, or missing (read by pandas as NaN)
Labels == {"0", "1", "nan"}
Rules == 1..NumRules
\* the path of the file given to predict_file.py (manifest paths are 1..MaxRows)
PredictPath == 0

VARIABLES
    modelFile,    \* the model artifact on disk: <<>> or <<pack>>
    reportFile,   \* the evaluation report on disk: <<>> or <<metrics>>
    pcT,          \* train_baseline.main: where the run is
    cfg,          \* train: <<>> or <<the loaded configuration>>
    rows,         \* train: the manifest rows iterated so far
    X, y, kept_paths,
    skipLog,      \* train: the paths printed by the except handler
    X_train, X_temp, X_val, X_test,   \* train: positions of X on each side
    model,        \* train: <<>> or <<the fitted classifier>>
    val_prob, test_prob, val_pred, test_pred,
    failedAt,     \* train: the step that raised ("" when none)
    err,          \* train: the exception raised ("" when none)
    wroteModel, wroteReport,  \* train: the files this run has written
    pcP,          \* predict_file.main: where the call is
    pcfg,         \* predict: <<>> or <<the loaded configuration>>
    pack,         \* predict: <<>> or <<the loaded artifact>>
    paudio,       \* predict: what decoding audio_path gave ("" before)
    px,           \* predict: <<>> or <<the feature vector>>
    p, pred, out  \* predict: probability, label, printed label

disk == <<modelFile, reportFile>>
loopVars == <<rows, X, y, kept_paths, skipLog>>
splitVars == <<X_train, X_temp, X_val, X_test>>
evalVars == <<val_prob, test_prob, val_pred, test_pred>>
trainVars == <<pcT, cfg, loopVars, splitVars, model, evalVars, failedAt, err,
               wroteModel, wroteReport>>
predictVars == <<pcP, pcfg, pack, paudio, px, p, pred, out>>
vars == <<disk, trainVars, predictVars>>

\* ------------------------------------------------------------ featurize
Zeros(n) == [i \in 1..n |-> "0"]

\* the five log-mel statistics, in the order of the list literal
LogmelStats == <<"logmel_mean", "logmel_std", "logmel_p10", "logmel_p50", "logmel_p90">>

\* the four per-frame series, in the order of the for loop
AuxSeries == <<"centroid", "rolloff", "zcr", "rms">>

RECURSIVE AppendAux(_, _)
\* for arr in (...): feats.append(mean(arr)); feats.append(std(arr))
AppendAux(feats, series) ==
    IF series = <<>> THEN feats
    ELSE AppendAux(feats \o <<Head(series) \o "_mean", Head(series) \o "_std">>,
                   Tail(series))

\* the early return for a signal of no samples
ZeroVector == Zeros(12)

\* featurize(path, cfg) for a file that decodes (audio is "empty" or "ok"):
\* the vector, with the path and configuration it was computed from
Featurize(path, audio, c) ==
    [src |-> path, cfg |-> c,
     feats |-> IF audio = "empty" THEN ZeroVector
               ELSE AppendAux(LogmelStats, AuxSeries)]

Width(x) == Len(x.feats)

\* ------------------------------------------------------------ training loop
\* int(row.label): the value, or -1 when the conversion raises
IntOfLabel(l) == IF l = "0" THEN 0 ELSE IF l = "1" THEN 1 ELSE -1

IsFault(audio, label) == audio # "ok" \/ label = "nan"

Faults(rs) == Cardinality({i \in 1..Len(rs) : IsFault(rs[i].audio, rs[i].label)})

\* faulty variant: the handler swallows the exception without printing the path
SkipLogSilent(log, path) == log

\* except Exception as ex: print(f"skip {row.path}: {ex}")
SkipLogAppend(log, path) == Append(log, path)

\* ------------------------------------------------------------ class check and split
Unique(lab, idx) == {lab[i] : i \in idx}

\* faulty variant: the check only rejects an empty label set
TooFewClassesOffByOne(labels) == Cardinality(Unique(labels, DOMAIN labels)) < 1

\* if unique.size < 2: raise RuntimeError(...)
TooFewClasses(labels) == Cardinality(Unique(labels, DOMAIN labels)) < 2

Count(lab, idx, c) == Cardinality({i \in idx : lab[i] = c})

\* sklearn _validate_shuffle_split: n_test = ceil(test_size * n_samples)
NTest(n, num, den) == (n * num + den - 1) \div den

\* sklearn _approximate_mode for the classes 0 and 1: the numbers of members
\* of each class drawn, <<n0, n1>>; a tie of the remainders is broken at random
ApproxMode(c0, c1, n) ==
    LET T == c0 + c1
        f0 == (c0 * n) \div T
        f1 == (c1 * n) \div T
        r0 == (c0 * n) % T
        r1 == (c1 * n) % T
    IN  IF f0 + f1 = n THEN {<<f0, f1>>}
        ELSE (IF r0 >= r1 THEN {<<f0 + 1, f1>>} ELSE {})
             \cup (IF r1 >= r0 THEN {<<f0, f1 + 1>>} ELSE {})

\* train_test_split(..., test_size=num/den, stratify=labels) raises ValueError:
\* test_size outside (0, 1), an empty train side, a class of one member, or a
\* side smaller than the number of classes
SplitRaises(idx, lab, num, den) ==
    LET n == Cardinality(idx)
        nTest == NTest(n, num, den)
        nTrain == n - nTest
        classes == Unique(lab, idx)
    IN  \/ num <= 0 \/ num >= den
        \/ nTrain = 0
        \/ \E c \in classes : Count(lab, idx, c) < 2
        \/ nTrain < Cardinality(classes)
        \/ nTest < Cardinality(classes)

\* faulty variant: the test side is cut one short, so a member lands on neither side
SplitsShort(idx, lab, num, den) ==
    LET n == Cardinality(idx)
        nTrain == n - NTest(n, num, den)
        modes == ApproxMode(Count(lab, idx, 0), Count(lab, idx, 1), nTrain)
    IN  { <<tr, (idx \ tr) \ {CHOOSE k \in idx \ tr : TRUE}>> :
            tr \in { S \in SUBSET idx :
                       <<Count(lab, S, 0), Count(lab, S, 1)>> \in modes } }

\* train_test_split when it does not raise: every <<train, test>> it can return
Splits(idx, lab, num, den) ==
    LET n == Cardinality(idx)
        nTrain == n - NTest(n, num, den)
        modes == ApproxMode(Count(lab, idx, 0), Count(lab, idx, 1), nTrain)
    IN  { <<tr, idx \ tr>> :
            tr \in { S \in SUBSET idx :
                       <<Count(lab, S, 0), Count(lab, S, 1)>> \in modes } }

\* ------------------------------------------------------------ classifier
RECURSIVE Checksum(_, _)
Checksum(S, lab) ==
    IF S = {} THEN 0
    ELSE LET i == CHOOSE k \in S : TRUE
         IN  i + lab[i] + Checksum(S \ {i}, lab)

\* LogisticRegression(...).fit(X_train, y_train): the fitted classifier
Fit(Xs, idx, lab) ==
    [nfeat |-> Width(Xs[1]), rule |-> 1 + (Checksum(idx, lab) % NumRules)]

\* model.predict_proba(x)[:, 1], in tenths
Proba(m, x) == 4 + ((2 * m.rule + x.src + 2) % 3)

\* (val_prob >= 0.5).astype(int)
TrainDecide(q) == IF q >= 5 THEN 1 ELSE 0

\* faulty variant: the threshold excludes 0.5
PredictDecideStrict(q) == IF q > 5 THEN 1 ELSE 0

\* int(p >= 0.5)
PredictDecide(q) == IF q >= 5 THEN 1 ELSE 0

\* 'piano' if pred else 'non_piano'
LabelName(d) == IF d # 0 THEN "piano" ELSE "non_piano"

\* faulty variant: the bundle carries the default configuration document, not cfg
PackDefaultConfig(m, c) == [model |-> m, config |-> CHOOSE d \in Configs : d.ext = 1]

\* joblib.dump({"model": model, "config": cfg}, model_out)
Pack(m, c) == [model |-> m, config |-> c]

\* ------------------------------------------------------------ initial state
Init ==
    /\ modelFile = <<>>
    /\ reportFile = <<>>
    /\ pcT = "start"
    /\ cfg = <<>>
    /\ rows = <<>> /\ X = <<>> /\ y = <<>> /\ kept_paths = <<>> /\ skipLog = <<>>
    /\ X_train = {} /\ X_temp = {} /\ X_val = {} /\ X_test = {}
    /\ model = <<>>
    /\ val_prob = <<>> /\ test_prob = <<>> /\ val_pred = <<>> /\ test_pred = <<>>
    /\ failedAt = "" /\ err = ""
    /\ wroteModel = FALSE /\ wroteReport = FALSE
    /\ pcP = "idle"
    /\ pcfg = <<>> /\ pack = <<>> /\ paudio = "" /\ px = <<>>
    /\ p = 0 /\ pred = 0 /\ out = ""

\* an uncaught exception ends the run
Raise(step, e) ==
    /\ pcT' = "failed"
    /\ failedAt' = step
    /\ err' = e

\* ------------------------------------------------------------ train_baseline.main
\* cfg = yaml.safe_load(...); df = pd.read_csv(args.manifest)
TrainLoad ==
    /\ pcT = "start" /\ pcP = "idle"
    /\ \E outcome \in {"ok", "config", "manifest"}, c \in Configs :
         IF outcome = "ok"
         THEN /\ cfg' = <<c>>
              /\ pcT' = "loop"
              /\ UNCHANGED <<failedAt, err>>
         ELSE /\ Raise(outcome, "OSError")
              /\ cfg' = IF outcome = "manifest" THEN <<c>> ELSE cfg
    /\ UNCHANGED <<disk, loopVars, splitVars, model, evalVars, wroteModel,
                   wroteReport, predictVars>>

\* one iteration of the loop over df.itertuples
TrainLoopRow ==
    /\ pcT = "loop"
    /\ Len(rows) < MaxRows
    /\ \E audio \in Audios, label \in Labels :
         LET path == Len(rows) + 1
             row == [path |-> path, label |-> label, audio |-> audio]
         IN  /\ Faults(Append(rows, row)) <= MaxFaults
             /\ rows' = Append(rows, row)
             /\ IF audio = "corrupt"
                THEN /\ skipLog' = SkipLogAppend(skipLog, path)
                     /\ UNCHANGED <<X, y, kept_paths>>
                ELSE /\ X' = Append(X, Featurize(path, audio, cfg[1]))
                     /\ IF IntOfLabel(label) = -1
                        THEN /\ skipLog' = SkipLogAppend(skipLog, path)
                             /\ UNCHANGED <<y, kept_paths>>
                        ELSE /\ y' = Append(y, IntOfLabel(label))
                             /\ kept_paths' = Append(kept_paths, path)
                             /\ UNCHANGED skipLog
    /\ UNCHANGED <<disk, pcT, cfg, splitVars, model, evalVars, failedAt, err,
                   wroteModel, wroteReport, predictVars>>

\* the loop ends; X = np.vstack(X); y = np.array(y)
TrainStack ==
    /\ pcT = "loop"
    /\ IF X = <<>> \/ \E i, j \in DOMAIN X : Width(X[i]) # Width(X[j])
       THEN Raise("stack", "ValueError")
       ELSE /\ pcT' = "stacked"
            /\ UNCHANGED <<failedAt, err>>
    /\ UNCHANGED <<disk, cfg, loopVars, splitVars, model, evalVars, wroteModel,
                   wroteReport, predictVars>>

\* unique = np.unique(y); if unique.size < 2: raise RuntimeError
TrainClassCheck ==
    /\ pcT = "stacked"
    /\ IF TooFewClasses(y)
       THEN Raise("classes", "InsufficientClasses")
       ELSE /\ pcT' = "checked"
            /\ UNCHANGED <<failedAt, err>>
    /\ UNCHANGED <<disk, cfg, loopVars, splitVars, model, evalVars, wroteModel,
                   wroteReport, predictVars>>

\* X_train, X_temp, y_train, y_temp = train_test_split(X, y, 1 - train_split)
TrainSplit1 ==
    /\ pcT = "checked"
    /\ LET num == 100 - cfg[1].train_split
       IN  IF Len(X) # Len(y) \/ SplitRaises(DOMAIN X, y, num, 100)
           THEN /\ Raise("split1", "ValueError")
                /\ UNCHANGED splitVars
           ELSE /\ \E s \in Splits(DOMAIN X, y, num, 100) :
                     /\ X_train' = s[1]
                     /\ X_temp' = s[2]
                /\ pcT' = "split1"
                /\ UNCHANGED <<X_val, X_test, failedAt, err>>
    /\ UNCHANGED <<disk, cfg, loopVars, model, evalVars, wroteModel,
                   wroteReport, predictVars>>

\* val_ratio = val/(val+test); X_val, X_test, ... = train_test_split(X_temp,
\* y_temp, test_size = 1 - val_ratio)
TrainSplit2 ==
    /\ pcT = "split1"
    /\ LET num == cfg[1].test_split
           den == cfg[1].val_split + cfg[1].test_split
       IN  IF SplitRaises(X_temp, y, num, den)
           THEN /\ Raise("split2", "ValueError")
                /\ UNCHANGED splitVars
           ELSE /\ \E s \in Splits(X_temp, y, num, den) :
                     /\ X_val' = s[1]
                     /\ X_test' = s[2]
                /\ pcT' = "split2"
                /\ UNCHANGED <<X_train, X_temp, failedAt, err>>
    /\ UNCHANGED <<disk, cfg, loopVars, model, evalVars, wroteModel,
                   wroteReport, predictVars>>

\* model = LogisticRegression(...); model.fit(X_train, y_train)
TrainFit ==
    /\ pcT = "split2"
    /\ IF Cardinality(Unique(y, X_train)) < 2
       THEN /\ Raise("fit", "ValueError")
            /\ UNCHANGED model
       ELSE /\ model' = <<Fit(X, X_train, y)>>
            /\ pcT' = "fitted"
            /\ UNCHANGED <<failedAt, err>>
    /\ UNCHANGED <<disk, cfg, loopVars, splitVars, evalVars, wroteModel,
                   wroteReport, predictVars>>

\* predict_proba, the thresholded predictions and the metrics dict;
\* roc_auc_score of a one-class subset raises or, in later releases of the
\* library, warns and returns NaN
TrainEval ==
    /\ pcT = "fitted"
    /\ val_prob' = [i \in X_val |-> Proba(model[1], X[i])]
    /\ test_prob' = [i \in X_test |-> Proba(model[1], X[i])]
    /\ val_pred' = [i \in X_val |-> TrainDecide(Proba(model[1], X[i]))]
    /\ test_pred' = [i \in X_test |-> TrainDecide(Proba(model[1], X[i]))]
    /\ \E aucRaises \in BOOLEAN :
         /\ aucRaises => \/ Cardinality(Unique(y, X_val)) < 2
                         \/ Cardinality(Unique(y, X_test)) < 2
         /\ IF aucRaises
            THEN Raise("eval", "ValueError")
            ELSE /\ pcT' = "evaluated"
                 /\ UNCHANGED <<failedAt, err>>
    /\ UNCHANGED <<disk, cfg, loopVars, splitVars, model, wroteModel,
                   wroteReport, predictVars>>

\* the metrics dict, as written to the report
Metrics ==
    [num_samples |-> Len(y),
     val_support |-> Cardinality(X_val),
     test_support |-> Cardinality(X_test)]

\* model_out.parent.mkdir(...); joblib.dump(...)
TrainWriteModel ==
    /\ pcT = "evaluated"
    /\ \E ok \in BOOLEAN :
         IF ok
         THEN /\ modelFile' = <<Pack(model[1], cfg[1])>>
              /\ wroteModel' = TRUE
              /\ pcT' = "model_written"
              /\ UNCHANGED <<failedAt, err>>
         ELSE /\ Raise("model_out", "OSError")
              /\ UNCHANGED <<modelFile, wroteModel>>
    /\ UNCHANGED <<reportFile, cfg, loopVars, splitVars, model,
                   evalVars, wroteReport, predictVars>>

\* report_out.parent.mkdir(...); report_out.write_text(...)
TrainWriteReport ==
    /\ pcT = "model_written"
    /\ \E ok \in BOOLEAN :
         IF ok
         THEN /\ reportFile' = <<Metrics>>
              /\ wroteReport' = TRUE
              /\ pcT' = "report_written"
              /\ UNCHANGED <<failedAt, err>>
         ELSE /\ Raise("report_out", "OSError")
              /\ UNCHANGED <<reportFile, wroteReport>>
    /\ UNCHANGED <<modelFile, cfg, loopVars, splitVars, model,
                   evalVars, wroteModel, predictVars>>

\* the process ends (after the final prints, or by the uncaught exception)
TrainExit ==
    /\ pcT \in {"report_written", "failed"}
    /\ pcT' = "exited"
    /\ cfg' = <<>>
    /\ rows' = <<>> /\ X' = <<>> /\ y' = <<>> /\ kept_paths' = <<>> /\ skipLog' = <<>>
    /\ X_train' = {} /\ X_temp' = {} /\ X_val' = {} /\ X_test' = {}
    /\ model' = <<>>
    /\ val_prob' = <<>> /\ test_prob' = <<>> /\ val_pred' = <<>> /\ test_pred' = <<>>
    /\ failedAt' = "" /\ err' = ""
    /\ wroteModel' = FALSE /\ wroteReport' = FALSE
    /\ UNCHANGED <<disk, predictVars>>

\* ------------------------------------------------------------ predict_file.main
\* an uncaught exception ends the call
PredictRaise ==
    /\ pcP' = "failed"
    /\ UNCHANGED <<p, pred, out>>

\* cfg = yaml.safe_load(...); pack = joblib.load(args.model); model = pack["model"]
PredictLoad ==
    /\ pcP = "idle" /\ pcT \in {"start", "exited"}
    /\ \E configReadable \in BOOLEAN, c \in Configs :
         IF configReadable /\ modelFile # <<>>
         THEN /\ pcfg' = <<c>>
              /\ pack' = modelFile
              /\ pcP' = "loaded"
              /\ UNCHANGED <<paudio, px, p, pred, out>>
         ELSE /\ PredictRaise
              /\ pcfg' = IF configReadable THEN <<c>> ELSE pcfg
              /\ UNCHANGED <<pack, paudio, px>>
    /\ UNCHANGED <<disk, trainVars>>

\* x = featurize(args.audio_path, cfg).reshape(1, -1)
PredictFeaturize ==
    /\ pcP = "loaded"
    /\ \E audio \in Audios :
         IF audio = "corrupt"
         THEN /\ PredictRaise
              /\ UNCHANGED <<paudio, px>>
         ELSE /\ paudio' = audio
              /\ px' = <<Featurize(PredictPath, audio, pcfg[1])>>
              /\ pcP' = "featurized"
              /\ UNCHANGED <<p, pred, out>>
    /\ UNCHANGED <<disk, trainVars, pcfg, pack>>

\* p = float(model.predict_proba(x)[0, 1]); pred = int(p >= 0.5); the prints.
\* predict_proba raises on an input whose width is not the fitted one.
PredictPrint ==
    /\ pcP = "featurized"
    /\ IF Width(px[1]) # pack[1].model.nfeat
       THEN PredictRaise
       ELSE /\ p' = Proba(pack[1].model, px[1])
            /\ pred' = PredictDecide(Proba(pack[1].model, px[1]))
            /\ out' = LabelName(PredictDecide(Proba(pack[1].model, px[1])))
            /\ pcP' = "printed"
    /\ UNCHANGED <<disk, trainVars, pcfg, pack, paudio, px>>

\* the process ends
PredictExit ==
    /\ pcP \in {"printed", "failed"}
    /\ pcP' = "idle"
    /\ pcfg' = <<>> /\ pack' = <<>> /\ paudio' = "" /\ px' = <<>>
    /\ p' = 0 /\ pred' = 0 /\ out' = ""
    /\ UNCHANGED <<disk, trainVars>>

Next ==
    \/ TrainLoad
    \/ TrainLoopRow
    \/ TrainStack
    \/ TrainClassCheck
    \/ TrainSplit1
    \/ TrainSplit2
    \/ TrainFit
    \/ TrainEval
    \/ TrainWriteModel
    \/ TrainWriteReport
    \/ TrainExit
    \/ PredictLoad
    \/ PredictFeaturize
    \/ PredictPrint
    \/ PredictExit

Spec == Init /\ [][Next]_vars

\* ------------------------------------------------------------ claims
InSeq(e, sq) == \E k \in DOMAIN sq : sq[k] = e

\* the rows iterated so far whose audio decoded (librosa.load did not raise)
Decoded == {i \in DOMAIN rows : rows[i].audio # "corrupt"}

\* the rows iterated so far are decodable clips or corrupt files, with 0/1 labels
CleanRows ==
    \A i \in DOMAIN rows : rows[i].audio # "empty" /\ rows[i].label # "nan"

SplitDone == pcT \in {"split2", "fitted", "evaluated", "model_written", "report_written"}

Evaluated == pcT \in {"evaluated", "model_written", "report_written"}

\* C1: featurize returns the all-zero vector of length 13 for every input
\* that decodes to zero samples, in the training and in the prediction script.
CE_C1_ZeroVectorOf13 ==
    /\ \A i \in DOMAIN X :
         rows[X[i].src].audio = "empty" => X[i].feats = Zeros(13)
    /\ (px # <<>> /\ paudio = "empty") => px[1].feats = Zeros(13)

\* C2: every vector featurize returns has the same length, whichever return
\* path produced it, so the vectors of a manifest stack into one matrix.
CE_C2_ConstantLength ==
    /\ \A i, j \in DOMAIN X : Width(X[i]) = Width(X[j])
    /\ ~(pcT = "failed" /\ failedAt = "stack" /\ X # <<>>)

\* C3 (as claimed): a training run over a manifest with rows that fail to
\* decode completes whenever the rows that decoded contain both labels.
\* Stated for manifests without empty audio and without missing labels.
CE_C3_CompletesWithBothLabels ==
    (/\ pcT = "failed"
     /\ failedAt \in {"stack", "classes", "split1", "split2", "fit", "eval"}
     /\ CleanRows
     /\ \E i \in DOMAIN rows : rows[i].audio = "corrupt")
    => {rows[i].label : i \in Decoded} # {"0", "1"}

\* C3 (amended): a row whose audio fails to decode never raises out of the
\* loop: it is skipped (no vector, label or path kept), its path is in the
\* skip log, and a run that completes reports num_samples equal to the number
\* of rows that decoded and has split exactly those rows.
Thm_C3_SkipAndContinue ==
    /\ \A i \in DOMAIN rows :
         rows[i].audio = "corrupt" =>
            /\ InSeq(i, skipLog)
            /\ ~InSeq(i, kept_paths)
            /\ \A k \in DOMAIN X : X[k].src # i
    /\ pcT = "failed" => failedAt # "loop"
    /\ pcT = "report_written" =>
         /\ reportFile # <<>>
         /\ reportFile[1].num_samples = Cardinality(Decoded)
         /\ {X[k].src : k \in X_train \cup X_val \cup X_test} = Decoded
         /\ {kept_paths[k] : k \in DOMAIN kept_paths} = Decoded

\* a completed run whose manifest had a corrupt row followed by kept rows
Wit_C3_CorruptRowThenCompleted ==
    /\ pcT = "report_written"
    /\ \E i, j \in DOMAIN rows :
         /\ i < j
         /\ rows[i].audio = "corrupt"
         /\ InSeq(j, kept_paths)

\* C4: at every inference call the configuration passed to featurize is the
\* configuration stored in the loaded model artifact.
CE_C4_InferenceConfigIsArtifactConfig ==
    px # <<>> => px[1].cfg = pack[1].config

\* C5: the artifact a training run writes holds the fitted classifier and
\* the configuration, and that configuration is the one passed to featurize
\* for every training example of the run.
Thm_C5_ArtifactCarriesTrainingConfig ==
    /\ modelFile # <<>> => DOMAIN modelFile[1] = {"model", "config"}
    /\ wroteModel =>
         /\ modelFile # <<>>
         /\ modelFile[1].model = model[1]
         /\ \A i \in DOMAIN X : X[i].cfg = modelFile[1].config

\* a run that wrote its artifact after featurizing with the second configuration
Wit_C5_ArtifactWritten ==
    /\ wroteModel
    /\ X # <<>>
    /\ \A i \in DOMAIN X : X[i].cfg.ext = 2

\* C6 (as claimed): the split step does not fail for any input in which both
\* labels are present.  Stated for X and y of equal length.
CE_C6_SplitNeverFailsWithBothLabels ==
    ~(/\ pcT = "failed"
      /\ failedAt \in {"split1", "split2"}
      /\ Len(X) = Len(y)
      /\ Unique(y, DOMAIN y) = {0, 1})

\* C6 (amended): the insufficient-classes error is raised exactly when the
\* labels handed to the class check hold fewer than two distinct values, and
\* before any fit; with both labels present that error is never raised, and a
\* failure of the stratified split itself is a ValueError.
Thm_C6_InsufficientClassesIffOneLabel ==
    /\ (pcT = "failed" /\ err = "InsufficientClasses") =>
         /\ failedAt = "classes"
         /\ Cardinality(Unique(y, DOMAIN y)) < 2
         /\ model = <<>>
    /\ (\/ pcT \in {"checked", "split1"}
        \/ SplitDone
        \/ (pcT = "failed" /\ failedAt \in {"split1", "split2", "fit", "eval",
                                            "model_out", "report_out"})) =>
         /\ Unique(y, DOMAIN y) = {0, 1}
         /\ err # "InsufficientClasses"
    /\ (pcT = "failed" /\ failedAt \in {"split1", "split2"}) => err = "ValueError"

\* a run stopped by the class check on labels that are all 0 or all 1
Wit_C6_OneLabelRejected ==
    /\ pcT = "failed"
    /\ err = "InsufficientClasses"
    /\ Len(y) >= 2
    /\ Cardinality(Unique(y, DOMAIN y)) = 1

\* C7: after a successful two-stage split the train, validation and test
\* subsets are pairwise disjoint, their sizes sum to the number of input
\* examples, and their union is the input set of examples.
Thm_C7_SplitIsPartition ==
    SplitDone =>
        /\ X_train \cap X_val = {}
        /\ X_train \cap X_test = {}
        /\ X_val \cap X_test = {}
        /\ Cardinality(X_train) + Cardinality(X_val) + Cardinality(X_test) = Len(X)
        /\ X_train \cup X_val \cup X_test = DOMAIN X
        /\ {X[k] : k \in X_train \cup X_val \cup X_test} = {X[k] : k \in DOMAIN X}

\* a two-stage split with three non-empty sides just made
Wit_C7_ThreeSides ==
    /\ pcT = "split2"
    /\ X_train # {} /\ X_val # {} /\ X_test # {}

\* C8: the threshold is inclusive wherever it is applied: in validation and
\* test evaluation and in single-file prediction the label is 1 ('piano') if
\* and only if the class-1 probability is at least 0.5.
Thm_C8_InclusiveThreshold ==
    /\ Evaluated =>
         /\ \A i \in X_val : val_pred[i] = (IF val_prob[i] >= 5 THEN 1 ELSE 0)
         /\ \A i \in X_test : test_pred[i] = (IF test_prob[i] >= 5 THEN 1 ELSE 0)
    /\ pcP = "printed" =>
         /\ pred = (IF p >= 5 THEN 1 ELSE 0)
         /\ out = (IF p >= 5 THEN "piano" ELSE "non_piano")

\* a prediction whose probability is exactly 0.5, printed as piano
Wit_C8_ExactlyHalf ==
    /\ pcP = "printed"
    /\ p = 5
    /\ out = "piano"

\* C9: a training run that terminates abnormally has left neither a model
\* artifact nor an evaluation report on disk.
CE_C9_NoArtifactsAfterFailure ==
    pcT = "failed" => (~wroteModel /\ ~wroteReport)

\* C10: after any prefix of the manifest X, y and kept_paths have equal
\* length and their i-th entries come from the same manifest row.
CE_C10_AccumulatorsAligned ==
    /\ Len(X) = Len(y)
    /\ Len(y) = Len(kept_paths)
    /\ \A i \in DOMAIN X :
         /\ X[i].src = kept_paths[i]
         /\ y[i] = IntOfLabel(rows[kept_paths[i]].label)

TypeOK ==
    /\ pcT \in {"start", "loop", "stacked", "checked", "split1", "split2", "fitted",
                "evaluated", "model_written", "report_written", "failed", "exited"}
    /\ pcP \in {"idle", "loaded", "featurized", "printed", "failed"}
    /\ Len(modelFile) <= 1 /\ Len(reportFile) <= 1
    /\ Len(rows) <= MaxRows

====
